---- MODULE Spec2Model ----
(***************************************************************************)
(* Model of the experiment tracker of prodclass:                           *)
(*   src/evaluate/evaluation.py            ExperimentManager (sqlite)       *)
(*   src/prodclass/evaluate/experiment_manager.py   the extended variant    *)
(*                                                                         *)
(* A Python dict is a sequence of <<key, value>> pairs with distinct keys  *)
(* in insertion order.  A table without a key (Execucao) is a bag of rows, *)
(* a table with INTEGER PRIMARY KEY is a set of rows carrying their ID.    *)
(* JSON text is the sequence of the object's members in the order they are *)
(* written; the MD5 digest is taken to be collision-free.                  *)
(***************************************************************************)
EXTENDS Integers, Sequences, FiniteSets, Bags, TLC

VARIABLES
    project_name,   \* self.project_name
    Experimentos,   \* table Experimentos: set of [ID, Nome, Projeto]
    Modelo,         \* table Modelo: set of [ID, ID_Experimento, Parametros, Semente, Hash]
    Execucao,       \* table Execucao: bag of [ID_Modelo, Rodada, Acuracia, F1ScoreMacro]
    last,           \* the last call: its name, arguments, return value / raised error
    calls,          \* number of calls made on the manager so far
    mv_calls        \* history: the add_model_variation calls made so far

vars == <<project_name, Experimentos, Modelo, Execucao, last, calls, mv_calls>>

----------------------------------------------------------------------------
(* Bounds of the model *)

MaxCalls == 3       \* calls made on one manager
MaxFolds == 2       \* largest folds argument
NumSamples == 2     \* len(X), the size of the dataset
MaxParams == 2      \* entries of a parameter mapping (fingerprints, expansion)
MaxList == 2        \* values listed for one key of a parameter space

----------------------------------------------------------------------------
(* Input domains *)

Projects == {"p"}
\* an experiment name is its sequence of characters
Names == {<<"a">>, <<"b">>}
\* names asked of get_experiment_results: also one never registered and
\* one holding the quote character
QueryNames == {<<"a">>, <<"c">>, <<"a", "'">>}
\* keys of parameter mappings, listed in the order Python sorts them
KeyOrder == <<"C", "gamma", "seed">>
Keys == {KeyOrder[i] : i \in 1..Len(KeyOrder)}
Values == {1, 10}
Seeds == {1, 10}
\* random_state handed to evaluate_model and run
RunSeeds == {10}
Scores == {1}
\* experiment ids handed to add_model_variation and evaluate_model directly
ExperimentIds == {1}
\* model ids handed to record_execution directly
ModelIds == {1, 2}

Rank(k) == CHOOSE i \in 1..Len(KeyOrder) : KeyOrder[i] = k

KeysOf(d) == {d[i][1] : i \in 1..Len(d)}
IsDict(d) == \A i, j \in 1..Len(d) : d[i][1] = d[j][1] => i = j

\* all dicts with keys in K, values in V and at most n entries
DictsOver(K, V, n) ==
    {d \in UNION {[1..m -> K \X V] : m \in 0..n} : IsDict(d)}

\* lists of at most n values
ListsOver(V, n) == UNION {[1..m -> V] : m \in 0..n}

\* parameter mappings of the direct calls, parameter spaces of run
Params ==
    { << <<"C", 1>> >>,
      << <<"C", 1>>, <<"seed", 10>> >>, << <<"seed", 10>>, <<"C", 1>> >> }
ParamSpaces ==
    { <<>>, << <<"C", <<1, 10>> >> >>, << <<"C", <<1, 1>> >> >>,
      << <<"C", <<1>> >>, <<"seed", <<10>> >> >> }

----------------------------------------------------------------------------
(* Pure functions *)

\* d[k] = v on a Python dict: an existing key keeps its position
DictSet(d, k, v) ==
    IF k \in KeysOf(d)
    THEN [i \in 1..Len(d) |-> IF d[i][1] = k THEN <<k, v>> ELSE d[i]]
    ELSE Append(d, <<k, v>>)

RECURSIVE InsertSorted(_, _)
InsertSorted(s, p) ==
    IF s = <<>> THEN <<p>>
    ELSE IF Rank(p[1]) < Rank(Head(s)[1]) THEN <<p>> \o s
    ELSE <<Head(s)>> \o InsertSorted(Tail(s), p)

RECURSIVE SortByKey(_)
SortByKey(d) ==
    IF d = <<>> THEN <<>> ELSE InsertSorted(SortByKey(Tail(d)), Head(d))

\* json.dumps(obj, sort_keys=...): the members in the order they are written
json_dumps(d, sort_keys) == IF sort_keys THEN SortByKey(d) ELSE d

\* hashlib.md5(x).hexdigest(), collision-free: the digest names its input
md5(x) == <<"md5", x>>

generate_hash_unsorted(params) == md5(json_dumps(params, FALSE))
generate_hash(params) == md5(json_dumps(params, TRUE))

\* the mapping add_model_variation hashes: {**parameters, "seed": seed}
Merged(parameters, seed) == DictSet(parameters, "seed", seed)
Fingerprint(parameters, seed) == generate_hash(Merged(parameters, seed))

----------------------------------------------------------------------------
(* Database operations on db = [Experimentos, Modelo, Execucao] *)

NextId(rows) == IF rows = {} THEN 1
                ELSE 1 + CHOOSE n \in {r.ID : r \in rows} :
                             \A r \in rows : r.ID <= n

\* INSERT ... ON CONFLICT(Nome, Projeto) DO NOTHING; return cur.lastrowid.
\* Every call opens its own connection, so lastrowid is 0 when nothing
\* was inserted.
\* a plain INSERT on a table without the UNIQUE constraint
AddExperiment_dup(db, project, experiment_name) ==
    LET id == NextId(db.Experimentos)
    IN [db |-> [db EXCEPT !.Experimentos = @ \cup
                   {[ID |-> id, Nome |-> experiment_name, Projeto |-> project]}],
        ret |-> id]
\* INSERT OR REPLACE: the conflicting row is deleted and written anew
AddExperiment_replace(db, project, experiment_name) ==
    LET old == {x \in db.Experimentos :
                   x.Nome = experiment_name /\ x.Projeto = project}
        id == NextId(db.Experimentos)
    IN [db |-> [db EXCEPT !.Experimentos = (@ \ old) \cup
                   {[ID |-> id, Nome |-> experiment_name, Projeto |-> project]}],
        ret |-> id]
AddExperiment(db, project, experiment_name) ==
    IF \E x \in db.Experimentos :
           x.Nome = experiment_name /\ x.Projeto = project
    THEN [db |-> db, ret |-> 0]
    ELSE LET id == NextId(db.Experimentos)
         IN [db |-> [db EXCEPT !.Experimentos = @ \cup
                        {[ID |-> id, Nome |-> experiment_name, Projeto |-> project]}],
             ret |-> id]

\* the insert without the lookup by hash
AddModelVariation_nolookup(db, experiment_id, parameters, seed) ==
    LET id == NextId(db.Modelo)
    IN [db |-> [db EXCEPT !.Modelo = @ \cup
                   {[ID |-> id, ID_Experimento |-> experiment_id,
                     Parametros |-> json_dumps(parameters, FALSE),
                     Semente |-> seed,
                     Hash |-> Fingerprint(parameters, seed)]}],
        ret |-> id]
\* SELECT ID FROM Modelo WHERE Hash = ?; insert when there is none
AddModelVariation(db, experiment_id, parameters, seed) ==
    LET params_hash == Fingerprint(parameters, seed)
        existing == {m \in db.Modelo : m.Hash = params_hash}
    IN IF existing # {}
       THEN [db |-> db, ret |-> (CHOOSE m \in existing : TRUE).ID]
       ELSE LET id == NextId(db.Modelo)
            IN [db |-> [db EXCEPT !.Modelo = @ \cup
                           {[ID |-> id, ID_Experimento |-> experiment_id,
                             Parametros |-> json_dumps(parameters, FALSE),
                             Semente |-> seed, Hash |-> params_hash]}],
                ret |-> id]

ExecRow(model_id, round, accuracy, f1_score_macro) ==
    [ID_Modelo |-> model_id, Rodada |-> round,
     Acuracia |-> accuracy, F1ScoreMacro |-> f1_score_macro]

\* INSERT INTO Execucao ...
RecordExecution(db, model_id, round, accuracy, f1_score_macro) ==
    [db EXCEPT !.Execucao =
        @ (+) SetToBag({ExecRow(model_id, round, accuracy, f1_score_macro)})]

\* sklearn KFold(n_splits=folds).split(X) on n_samples = len(X): the
\* constructor rejects n_splits <= 1, split rejects n_splits > n_samples
KFoldRaises(n_samples, folds) == folds < 2 \/ folds > n_samples

\* len(test_index) of fold i: the first n_samples % folds folds get one more
TestSize(n_samples, folds, i) ==
    (n_samples \div folds) + (IF i < n_samples % folds THEN 1 ELSE 0)

\* the loop body of evaluate_model for folds i .. folds-1:
\* accuracy = len(X_train), f1_score_macro = len(X_test)
RECURSIVE RecordFolds(_, _, _, _, _)
RecordFolds(db, model_id, n_samples, folds, i) ==
    IF i >= folds THEN db
    ELSE RecordFolds(
             RecordExecution(db, model_id, i,
                             n_samples - TestSize(n_samples, folds, i),
                             TestSize(n_samples, folds, i)),
             model_id, n_samples, folds, i + 1)

RecordedFolds(db, model_id, n_samples, folds) ==
    RecordFolds(db, model_id, n_samples, folds, 0)

\* the record of one add_model_variation call: arguments, return value and
\* the number of rows it added to the Modelo table
MvCall(db, r, experiment_id, parameters, seed) ==
    [experiment_id |-> experiment_id, parameters |-> parameters, seed |-> seed,
     ret |-> r.ret,
     added |-> Cardinality(r.db.Modelo) - Cardinality(db.Modelo)]

\* evaluate_model: the model variation is committed before KFold is built
EvaluateModel(db, experiment_id, n_samples, parameter_variation, folds, random_state) ==
    LET r == AddModelVariation(db, experiment_id, parameter_variation, random_state)
        c == MvCall(db, r, experiment_id, parameter_variation, random_state)
    IN IF KFoldRaises(n_samples, folds)
       THEN [db |-> r.db, model_id |-> r.ret, raised |-> TRUE, mv |-> c]
       ELSE [db |-> RecordedFolds(r.db, r.ret, n_samples, folds),
             model_id |-> r.ret, raised |-> FALSE, mv |-> c]

\* itertools.product(*values): the rightmost list advances fastest
RECURSIVE Prepend(_, _, _)
Prepend(head, rest, i) ==
    IF i > Len(head) THEN <<>>
    ELSE [j \in 1..Len(rest) |-> <<head[i]>> \o rest[j]] \o Prepend(head, rest, i + 1)

RECURSIVE Product(_)
Product(lists) ==
    IF lists = <<>> THEN << <<>> >>
    ELSE Prepend(Head(lists), Product(Tail(lists)), 1)

\* dict(zip(keys, v))
ZipDict(keys, v) == [i \in 1..Len(keys) |-> <<keys[i], v[i]>>]

\* zip(*values) in place of itertools.product(*values)
RECURSIVE MinLen(_)
MinLen(lists) ==
    IF Len(lists) = 1 THEN Len(Head(lists))
    ELSE LET n == MinLen(Tail(lists))
         IN IF Len(Head(lists)) < n THEN Len(Head(lists)) ELSE n

Combinations_zip(parameter_dict) ==
    LET keys == [i \in 1..Len(parameter_dict) |-> parameter_dict[i][1]]
        values == [i \in 1..Len(parameter_dict) |-> parameter_dict[i][2]]
    IN IF values = <<>> THEN << <<>> >>
       ELSE [i \in 1..MinLen(values) |->
                ZipDict(keys, [k \in 1..Len(values) |-> values[k][i]])]

\* [dict(zip(keys, v)) for v in itertools.product(*values)]
Combinations(parameter_dict) ==
    LET keys == [i \in 1..Len(parameter_dict) |-> parameter_dict[i][1]]
        values == [i \in 1..Len(parameter_dict) |-> parameter_dict[i][2]]
        prod == Product(values)
    IN [i \in 1..Len(prod) |-> ZipDict(keys, prod[i])]

\* evaluation.py: keys, values = zip(*parameter_dict.items()) cannot unpack
\* an empty mapping (ValueError)
generate_parameter_combinations(parameter_dict) ==
    IF parameter_dict = <<>>
    THEN [raised |-> TRUE, value |-> <<>>]
    ELSE [raised |-> FALSE, value |-> Combinations(parameter_dict)]

\* experiment_manager.py: product(*parameter_dict.values()), no unpacking
generate_parameter_combinations_em(parameter_dict) ==
    [raised |-> FALSE, value |-> Combinations(parameter_dict)]

\* the for loop of run over parameter_combinations[i..]; a raising
\* evaluate_model ends the loop.  mv: the add_model_variation calls made
RECURSIVE RunLoop(_, _, _, _, _, _, _, _)
RunLoop(db, experiment_id, n_samples, combos, folds, random_state, i, mv) ==
    IF i > Len(combos)
    THEN [db |-> db, raised |-> FALSE, mv |-> mv]
    ELSE LET r == EvaluateModel(db, experiment_id, n_samples, combos[i],
                                folds, random_state)
         IN IF r.raised
            THEN [db |-> r.db, raised |-> TRUE, mv |-> Append(mv, r.mv)]
            ELSE RunLoop(r.db, experiment_id, n_samples, combos, folds,
                         random_state, i + 1, Append(mv, r.mv))

Run(db, project, experiment_name, n_samples, parameter_dict, folds, random_state) ==
    LET e == AddExperiment(db, project, experiment_name)
        g == generate_parameter_combinations(parameter_dict)
    IN IF g.raised
       THEN [db |-> e.db, raised |-> TRUE, mv |-> <<>>,
             experiment_id |-> e.ret, combos |-> <<>>]
       ELSE LET r == RunLoop(e.db, e.ret, n_samples, g.value, folds,
                             random_state, 1, <<>>)
            IN [db |-> r.db, raised |-> r.raised, mv |-> r.mv,
                experiment_id |-> e.ret, combos |-> g.value]

ModelIdsOf(mv) == [i \in 1..Len(mv) |-> mv[i].ret]

----------------------------------------------------------------------------
(* Queries *)

RECURSIVE SumCounts(_, _)
SumCounts(B, S) ==
    IF S = {} THEN 0
    ELSE LET e == CHOOSE x \in S : TRUE
         IN B[e] + SumCounts(B, S \ {e})

\* SELECT M.Parametros, E.Rodada, E.Acuracia, E.F1ScoreMacro
ResultRow(e, m) ==
    [Parametros |-> m.Parametros, Rodada |-> e.Rodada,
     Acuracia |-> e.Acuracia, F1ScoreMacro |-> e.F1ScoreMacro]

\* the Execucao rows a set of models owns, each joined to its model
JoinedTo(db, models) ==
    {<<e, m>> \in BagToSet(db.Execucao) \X models : e.ID_Modelo = m.ID}

Select(db, models) ==
    LET pairs == JoinedTo(db, models)
        rows == {ResultRow(p[1], p[2]) : p \in pairs}
    IN [r \in rows |->
          SumCounts(db.Execucao,
                    {p[1] : p \in {q \in pairs : ResultRow(q[1], q[2]) = r}})]

\* the models the three-table join of evaluation.py keeps:
\* M.ID_Experimento = Exp.ID AND Exp.Nome = ? AND Exp.Projeto = ?
ModelsOf(db, project, experiment_name) ==
    {m \in db.Modelo : \E x \in db.Experimentos :
        /\ x.ID = m.ID_Experimento
        /\ x.Nome = experiment_name
        /\ x.Projeto = project}

GetExperimentResults(db, project, experiment_name) ==
    Select(db, ModelsOf(db, project, experiment_name))

\* experiment_manager.py builds "... WHERE Nome = '{experiment_name}' AND ...":
\* inside a SQL string literal '' is one quote and a lone ' ends the literal.
\* The statement is well formed only if the literal ends at the quote the
\* template writes after the name, i.e. every run of quotes in the name is
\* of even length.
RECURSIVE SqlLiteral(_)
SqlLiteral(chars) ==
    IF chars = <<>> THEN [ok |-> TRUE, text |-> <<>>]
    ELSE IF Head(chars) # "'"
    THEN LET r == SqlLiteral(Tail(chars))
         IN [ok |-> r.ok, text |-> <<Head(chars)>> \o r.text]
    ELSE IF Len(chars) >= 2 /\ chars[2] = "'"
    THEN LET r == SqlLiteral(Tail(Tail(chars)))
         IN [ok |-> r.ok, text |-> <<"'">> \o r.text]
    ELSE [ok |-> FALSE, text |-> <<>>]

\* TabelaExperimentos.query_sql on the interpolated statement
\* "SELECT ID FROM Experimentos WHERE Nome = '<name>' AND Projeto = '<project>'":
\* a malformed statement is a database error, which surfaces to the caller
query_sql_experimento(db, project, experiment_name) ==
    LET lit == SqlLiteral(experiment_name)
    IN [raised |-> ~lit.ok,
        rows |-> IF lit.ok
                 THEN {x \in db.Experimentos :
                          x.Nome = lit.text /\ x.Projeto = project}
                 ELSE {}]

\* TabelaExecucoes.query_sql on
\* "SELECT ... FROM Execucoes e JOIN Modelos m ON e.ID_Modelo = m.ID
\*  WHERE m.ID_Experimento = <experiment_id>"
query_sql_resultados(db, experiment_id) ==
    Select(db, {m \in db.Modelo : m.ID_Experimento = experiment_id})

\* experiment_manager.py get_experiment_results: look the experiment up by
\* the interpolated statement, then select the executions of its models
GetExperimentResults_em(db, project, experiment_name) ==
    LET experiment_id_df == query_sql_experimento(db, project, experiment_name)
    IN IF experiment_id_df.raised THEN [raised |-> TRUE, ret |-> EmptyBag]
       ELSE IF experiment_id_df.rows = {} THEN [raised |-> FALSE, ret |-> EmptyBag]
       ELSE LET experiment_id == (CHOOSE x \in experiment_id_df.rows : TRUE).ID
            IN [raised |-> FALSE, ret |-> query_sql_resultados(db, experiment_id)]

----------------------------------------------------------------------------
(* The manager: one action per method *)

DB == [Experimentos |-> Experimentos, Modelo |-> Modelo, Execucao |-> Execucao]

SetDB(db) ==
    /\ Experimentos' = db.Experimentos
    /\ Modelo' = db.Modelo
    /\ Execucao' = db.Execucao

\* one more call is made
Call ==
    /\ calls < MaxCalls
    /\ calls' = calls + 1
    /\ UNCHANGED project_name

\* ExperimentManager(project_name): create_tables on a new database file
Fresh ==
    /\ project_name \in Projects
    /\ Experimentos = {}
    /\ Modelo = {}
    /\ Execucao = EmptyBag
    /\ calls = 0
    /\ mv_calls = {}

Init ==
    /\ Fresh
    /\ last = [op |-> "init"]

add_experiment ==
    \E experiment_name \in Names :
        LET r == AddExperiment(DB, project_name, experiment_name)
        IN /\ Call
           /\ SetDB(r.db)
           /\ last' = [op |-> "add_experiment", experiment_name |-> experiment_name,
                       ret |-> r.ret]
           /\ UNCHANGED mv_calls

add_model_variation ==
    \E experiment_id \in ExperimentIds, parameters \in Params, seed \in Seeds :
        LET r == AddModelVariation(DB, experiment_id, parameters, seed)
        IN /\ Call
           /\ SetDB(r.db)
           /\ last' = [op |-> "add_model_variation", ret |-> r.ret]
           /\ mv_calls' = mv_calls \cup
                              {MvCall(DB, r, experiment_id, parameters, seed)}

record_execution ==
    \E model_id \in ModelIds, round \in {0},
       accuracy \in Scores, f1_score_macro \in Scores :
        LET db == RecordExecution(DB, model_id, round, accuracy, f1_score_macro)
        IN /\ Call
           /\ SetDB(db)
           /\ last' = [op |-> "record_execution",
                       row |-> ExecRow(model_id, round, accuracy, f1_score_macro)]
           /\ UNCHANGED mv_calls

evaluate_model ==
    \E experiment_id \in ExperimentIds, n_samples \in {NumSamples},
       parameter_variation \in Params, folds \in 1..MaxFolds,
       random_state \in RunSeeds :
        LET r == EvaluateModel(DB, experiment_id, n_samples, parameter_variation,
                               folds, random_state)
        IN /\ Call
           /\ SetDB(r.db)
           /\ last' = [op |-> "evaluate_model", folds |-> folds,
                       n_samples |-> n_samples,
                       model_id |-> r.model_id, raised |-> r.raised]
           /\ mv_calls' = mv_calls \cup {r.mv}

run ==
    \E experiment_name \in Names, n_samples \in {NumSamples},
       parameter_dict \in ParamSpaces, folds \in 1..MaxFolds, random_state \in RunSeeds :
        LET r == Run(DB, project_name, experiment_name, n_samples, parameter_dict,
                     folds, random_state)
        IN /\ Call
           /\ SetDB(r.db)
           /\ last' = [op |-> "run", experiment_name |-> experiment_name,
                       folds |-> folds, n_samples |-> n_samples,
                       model_ids |-> ModelIdsOf(r.mv), raised |-> r.raised]
           /\ mv_calls' = mv_calls \cup {r.mv[i] : i \in 1..Len(r.mv)}

get_experiment_results ==
    \E experiment_name \in QueryNames :
        /\ Call
        /\ last' = [op |-> "get_experiment_results",
                    experiment_name |-> experiment_name,
                    ret |-> GetExperimentResults(DB, project_name, experiment_name),
                    raised |-> FALSE]
        /\ UNCHANGED <<Experimentos, Modelo, Execucao, mv_calls>>

get_experiment_results_em ==
    \E experiment_name \in QueryNames :
        LET r == GetExperimentResults_em(DB, project_name, experiment_name)
        IN /\ Call
           /\ last' = [op |-> "get_experiment_results_em",
                       experiment_name |-> experiment_name,
                       ret |-> r.ret, raised |-> r.raised]
           /\ UNCHANGED <<Experimentos, Modelo, Execucao, mv_calls>>

Next ==
    \/ add_experiment
    \/ add_model_variation
    \/ record_execution
    \/ evaluate_model
    \/ run
    \/ get_experiment_results
    \/ get_experiment_results_em

Spec == Init /\ [][Next]_vars

\* the manager used through run and the queries alone
NextRuns ==
    \/ run
    \/ get_experiment_results
    \/ get_experiment_results_em

SpecRuns == Init /\ [][NextRuns]_vars

\* the manager used without hand-written execution rows
NextEval ==
    \/ add_experiment
    \/ add_model_variation
    \/ evaluate_model
    \/ run
    \/ get_experiment_results

SpecEval == Init /\ [][NextEval]_vars

----------------------------------------------------------------------------
(* Fingerprints of two (parameters, seed) pairs on a new manager *)

HashDicts == DictsOver(Keys, Values, MaxParams)

InitHash ==
    /\ Fresh
    /\ \E p \in HashDicts, q \in HashDicts, s \in Seeds, t \in Seeds :
           last = [op |-> "input", p |-> p, q |-> q, s |-> s, t |-> t]

\* generate_hash on both mappings, and as add_model_variation calls it
generate_hash_both ==
    /\ last.op = "input"
    /\ last' = [op |-> "generate_hash", p |-> last.p, q |-> last.q,
                s |-> last.s, t |-> last.t,
                hp |-> generate_hash(last.p), hq |-> generate_hash(last.q),
                fp |-> Fingerprint(last.p, last.s),
                fq |-> Fingerprint(last.q, last.t)]
    /\ UNCHANGED <<project_name, Experimentos, Modelo, Execucao, calls, mv_calls>>

\* add_model_variation(1, p, s)
add_model_variation_first ==
    /\ last.op = "input"
    /\ LET r == AddModelVariation(DB, 1, last.p, last.s)
       IN /\ SetDB(r.db)
          /\ last' = [op |-> "first", p |-> last.p, q |-> last.q,
                      s |-> last.s, t |-> last.t, ret1 |-> r.ret]
          /\ mv_calls' = mv_calls \cup {MvCall(DB, r, 1, last.p, last.s)}
    /\ UNCHANGED <<project_name, calls>>

\* then add_model_variation(1, q, t)
add_model_variation_second ==
    /\ last.op = "first"
    /\ LET r == AddModelVariation(DB, 1, last.q, last.t)
       IN /\ SetDB(r.db)
          /\ last' = [op |-> "second", p |-> last.p, q |-> last.q,
                      s |-> last.s, t |-> last.t,
                      ret1 |-> last.ret1, ret2 |-> r.ret]
          /\ mv_calls' = mv_calls \cup {MvCall(DB, r, 1, last.q, last.t)}
    /\ UNCHANGED <<project_name, calls>>

NextHash ==
    \/ generate_hash_both
    \/ add_model_variation_first
    \/ add_model_variation_second

SpecHash == InitHash /\ [][NextHash]_vars

----------------------------------------------------------------------------
(* Parameter expansion of one parameter space on a new manager *)

\* keys of the parameter spaces that are run
RunKeys == {"C", "seed"}

ComboSpaces == DictsOver(Keys, ListsOver(Values, MaxList), MaxParams)

InitCombos ==
    /\ Fresh
    /\ \E parameter_dict \in ComboSpaces, random_state \in RunSeeds :
           last = [op |-> "input", parameter_dict |-> parameter_dict,
                   random_state |-> random_state]

generate_parameter_combinations_both ==
    /\ last.op = "input"
    /\ last' = [op |-> "generate_parameter_combinations",
                parameter_dict |-> last.parameter_dict,
                result |-> generate_parameter_combinations(last.parameter_dict),
                result_em |-> generate_parameter_combinations_em(last.parameter_dict)]
    /\ UNCHANGED <<project_name, Experimentos, Modelo, Execucao, calls, mv_calls>>

\* run(experiment_name, classifier, X, y, parameter_dict, folds, random_state)
run_input ==
    /\ last.op = "input"
    /\ KeysOf(last.parameter_dict) \subseteq RunKeys
    /\ \E experiment_name \in {<<"a">>}, folds \in {2} :
        LET r == Run(DB, project_name, experiment_name, NumSamples,
                     last.parameter_dict, folds, last.random_state)
        IN /\ SetDB(r.db)
           /\ last' = [op |-> "run", experiment_name |-> experiment_name,
                       parameter_dict |-> last.parameter_dict,
                       random_state |-> last.random_state,
                       folds |-> folds, n_samples |-> NumSamples,
                       combos |-> r.combos,
                       model_ids |-> ModelIdsOf(r.mv), raised |-> r.raised]
           /\ mv_calls' = mv_calls \cup {r.mv[i] : i \in 1..Len(r.mv)}
    /\ UNCHANGED <<project_name, calls>>

NextCombos ==
    \/ generate_parameter_combinations_both
    \/ run_input

SpecCombos == InitCombos /\ [][NextCombos]_vars

----------------------------------------------------------------------------
(* The extended variant (experiment_manager.py): the evaluation loop calls
   the classifier, whose fit or predict may raise.  The classifier is an
   input: fail_at is the ordinal of the fit/predict call that raises
   (0: none), accuracy and f1_score_macro are the scores of its predictions. *)

\* TabelaExperimentos.add(name, project): the row of (name, project) is
\* created on first use; the identifier of the row is returned
tabela_experimentos_add(db, experiment_name, project) ==
    LET existing == {x \in db.Experimentos :
                        x.Nome = experiment_name /\ x.Projeto = project}
    IN IF existing # {}
       THEN [db |-> db, ret |-> (CHOOSE x \in existing : TRUE).ID]
       ELSE LET id == NextId(db.Experimentos)
            IN [db |-> [db EXCEPT !.Experimentos = @ \cup
                           {[ID |-> id, Nome |-> experiment_name,
                             Projeto |-> project]}],
                ret |-> id]

\* TabelaModelos.add(experiment_id, parameters, seed): look the row up by
\* the hash of (parameters, seed); insert one when there is none
tabela_modelos_add(db, experiment_id, parameters, seed) ==
    LET params_hash == Fingerprint(parameters, seed)
        existing == {m \in db.Modelo : m.Hash = params_hash}
    IN IF existing # {}
       THEN [db |-> db, ret |-> (CHOOSE m \in existing : TRUE).ID]
       ELSE LET id == NextId(db.Modelo)
            IN [db |-> [db EXCEPT !.Modelo = @ \cup
                           {[ID |-> id, ID_Experimento |-> experiment_id,
                             Parametros |-> json_dumps(parameters, FALSE),
                             Semente |-> seed, Hash |-> params_hash]}],
                ret |-> id]

\* TabelaExecucoes.add(model_id, round, accuracy, f1_score_macro, ...): one
\* more execution row, committed by the operation itself
tabela_execucoes_add(db, model_id, round, accuracy, f1_score_macro) ==
    [db EXCEPT !.Execucao =
        @ (+) SetToBag({ExecRow(model_id, round, accuracy, f1_score_macro)})]

\* the outcomes of the classifier's fit/predict calls of one method call
FitCalls == 0..(MaxFolds * MaxList)

\* a loop that swallows the classifier's exception and goes on to the
\* next fold
RECURSIVE EvaluateFolds_em_skip(_, _, _, _, _, _, _, _)
EvaluateFolds_em_skip(db, model_id, folds, i, fits, fail_at, accuracy, f1_score_macro) ==
    IF i >= folds THEN [db |-> db, raised |-> FALSE, fits |-> fits]
    ELSE IF fits + 1 = fail_at
         THEN EvaluateFolds_em_skip(db, model_id, folds, i + 1, fits + 1,
                                    fail_at, accuracy, f1_score_macro)
         ELSE EvaluateFolds_em_skip(
                  tabela_execucoes_add(db, model_id, i, accuracy, f1_score_macro),
                  model_id, folds, i + 1, fits + 1, fail_at,
                  accuracy, f1_score_macro)

\* the for loop of evaluate_model over folds i .. folds-1: fit and predict
\* (call number fits + 1 of the classifier), score, tabela_execucoes.add.
\* An exception of the classifier leaves the loop and the method.
RECURSIVE EvaluateFolds_em(_, _, _, _, _, _, _, _)
EvaluateFolds_em(db, model_id, folds, i, fits, fail_at, accuracy, f1_score_macro) ==
    IF i >= folds THEN [db |-> db, raised |-> FALSE, fits |-> fits]
    ELSE IF fits + 1 = fail_at
         THEN [db |-> db, raised |-> TRUE, fits |-> fits + 1]
         ELSE EvaluateFolds_em(
                  tabela_execucoes_add(db, model_id, i, accuracy, f1_score_macro),
                  model_id, folds, i + 1, fits + 1, fail_at,
                  accuracy, f1_score_macro)

\* evaluate_model(model_id, classifier, X, y, parameter_variation, folds, ...)
EvaluateModel_em(db, model_id, n_samples, folds, fits, fail_at, accuracy, f1_score_macro) ==
    IF KFoldRaises(n_samples, folds)
    THEN [db |-> db, raised |-> TRUE, fit_failed |-> FALSE, fits |-> fits]
    ELSE LET r == EvaluateFolds_em(db, model_id, folds, 0, fits, fail_at,
                                   accuracy, f1_score_macro)
         IN [db |-> r.db, raised |-> r.raised, fit_failed |-> r.raised,
             fits |-> r.fits]

\* the for loop of run over parameter_combinations[i..]: add_model_variation,
\* then evaluate_model; ids are the model ids obtained so far
RECURSIVE RunLoop_em(_, _, _, _, _, _, _, _, _, _, _, _)
RunLoop_em(db, experiment_id, n_samples, combos, folds, random_state, i, ids, fits, fail_at, accuracy, f1_score_macro) ==
    IF i > Len(combos)
    THEN [db |-> db, raised |-> FALSE, fit_failed |-> FALSE,
          model_ids |-> ids, fits |-> fits]
    ELSE LET m == tabela_modelos_add(db, experiment_id, combos[i], random_state)
             r == EvaluateModel_em(m.db, m.ret, n_samples, folds, fits, fail_at,
                                   accuracy, f1_score_macro)
         IN IF r.raised
            THEN [db |-> r.db, raised |-> TRUE, fit_failed |-> r.fit_failed,
                  model_ids |-> Append(ids, m.ret), fits |-> r.fits]
            ELSE RunLoop_em(r.db, experiment_id, n_samples, combos, folds,
                            random_state, i + 1, Append(ids, m.ret),
                            r.fits, fail_at, accuracy, f1_score_macro)

\* run(experiment_name, classifier, X, y, parameter_dict, folds, random_state)
Run_em(db, project, experiment_name, n_samples, parameter_dict, folds, random_state, fail_at, accuracy, f1_score_macro) ==
    LET e == tabela_experimentos_add(db, experiment_name, project)
        g == generate_parameter_combinations_em(parameter_dict)
        r == RunLoop_em(e.db, e.ret, n_samples, g.value, folds, random_state,
                        1, <<>>, 0, fail_at, accuracy, f1_score_macro)
    IN [db |-> r.db, raised |-> r.raised, fit_failed |-> r.fit_failed,
        model_ids |-> r.model_ids, fits |-> r.fits,
        experiment_id |-> e.ret, combos |-> g.value]

\* one more call is made on a manager of the extended variant
Call_em ==
    /\ calls < MaxCalls - 1
    /\ calls' = calls + 1
    /\ UNCHANGED project_name

add_experiment_em ==
    \E experiment_name \in Names :
        LET r == tabela_experimentos_add(DB, experiment_name, project_name)
        IN /\ Call_em
           /\ SetDB(r.db)
           /\ last' = [op |-> "add_experiment_em",
                       experiment_name |-> experiment_name, ret |-> r.ret]
           /\ UNCHANGED mv_calls

add_model_variation_em ==
    \E experiment_id \in ExperimentIds, parameters \in Params, seed \in RunSeeds :
        LET r == tabela_modelos_add(DB, experiment_id, parameters, seed)
        IN /\ Call_em
           /\ SetDB(r.db)
           /\ last' = [op |-> "add_model_variation_em", ret |-> r.ret]
           /\ UNCHANGED mv_calls

evaluate_model_em ==
    \E model_id \in ModelIds, n_samples \in {NumSamples}, folds \in 1..MaxFolds,
       fail_at \in 0..MaxFolds, accuracy \in Scores, f1_score_macro \in Scores :
        LET r == EvaluateModel_em(DB, model_id, n_samples, folds, 0, fail_at,
                                  accuracy, f1_score_macro)
        IN /\ Call_em
           /\ SetDB(r.db)
           /\ last' = [op |-> "evaluate_model_em", model_id |-> model_id,
                       folds |-> folds, fail_at |-> fail_at,
                       accuracy |-> accuracy, f1_score_macro |-> f1_score_macro,
                       raised |-> r.raised, fit_failed |-> r.fit_failed,
                       fits |-> r.fits]
           /\ UNCHANGED mv_calls

run_em ==
    \E experiment_name \in {<<"a">>}, n_samples \in {NumSamples},
       parameter_dict \in ParamSpaces, folds \in 1..MaxFolds,
       random_state \in RunSeeds, fail_at \in FitCalls,
       accuracy \in Scores, f1_score_macro \in Scores :
        LET r == Run_em(DB, project_name, experiment_name, n_samples,
                        parameter_dict, folds, random_state, fail_at,
                        accuracy, f1_score_macro)
        IN /\ Call_em
           /\ SetDB(r.db)
           /\ last' = [op |-> "run_em", experiment_name |-> experiment_name,
                       folds |-> folds, fail_at |-> fail_at,
                       accuracy |-> accuracy, f1_score_macro |-> f1_score_macro,
                       combos |-> r.combos, model_ids |-> r.model_ids,
                       raised |-> r.raised, fit_failed |-> r.fit_failed,
                       fits |-> r.fits]
           /\ UNCHANGED mv_calls

NextFail ==
    \/ add_experiment_em
    \/ add_model_variation_em
    \/ evaluate_model_em
    \/ run_em

SpecFail == Init /\ [][NextFail]_vars

----------------------------------------------------------------------------
(* Claims *)

SameArgs(c, d) ==
    /\ c.experiment_id = d.experiment_id
    /\ c.parameters = d.parameters
    /\ c.seed = d.seed

\* C1: any two add_model_variation calls with the same experiment, the same
\* parameter mapping and the same seed return the same identifier, at most
\* one of them adds a row, and the Modelo table holds exactly one row for
\* that (parameters, seed): the row whose ID was returned.
C1_ModelVariationDedup ==
    \A c \in mv_calls :
        /\ \A d \in mv_calls : SameArgs(c, d) => d.ret = c.ret
        /\ Cardinality({d \in mv_calls : SameArgs(c, d) /\ d.added # 0}) <= 1
        /\ {m.ID : m \in {x \in Modelo :
                             x.Hash = Fingerprint(c.parameters, c.seed)}} = {c.ret}
        /\ Cardinality({m \in Modelo : m.ID = c.ret}) = 1

\* a (parameters, seed) was registered, and registered again without a new row
C1_Witness ==
    \E c \in mv_calls, d \in mv_calls :
        /\ SameArgs(c, d) /\ c.added = 1 /\ d.added = 0 /\ c.ret = d.ret
        /\ last.op = "add_model_variation"

\* C2: the Experimentos table holds at most one row per (name, project), and
\* after add_experiment or run for a name exactly one row for it.
C2_ExperimentDedup ==
    /\ \A x \in Experimentos, y \in Experimentos :
           (x.Nome = y.Nome /\ x.Projeto = y.Projeto) => x = y
    /\ last.op \in {"add_experiment", "run"} =>
           Cardinality({x \in Experimentos :
                           /\ x.Nome = last.experiment_name
                           /\ x.Projeto = project_name}) = 1

\* the same (name, project) was registered a second time
C2_Witness ==
    /\ last.op = "add_experiment"
    /\ last.ret = 0
    /\ \E x \in Experimentos : x.Nome = last.experiment_name

SameMapping(p, q) == {p[i] : i \in 1..Len(p)} = {q[i] : i \in 1..Len(q)}

\* C3: the fingerprints add_model_variation computes for (p, s) and (q, t)
\* are equal exactly when p and q are the same mapping and s = t.
C3_FingerprintDistinct ==
    last.op = "generate_hash" =>
        ((SameMapping(last.p, last.q) /\ last.s = last.t) <=> last.fp = last.fq)

\* C4: generate_hash gives two mappings with the same key/value pairs in a
\* different key order the same value, and add_model_variation resolves
\* both (with one seed) to the same single row.
C4_KeyOrderIndependent ==
    /\ (last.op = "generate_hash" /\ SameMapping(last.p, last.q))
           => last.hp = last.hq
    /\ (last.op = "second" /\ SameMapping(last.p, last.q) /\ last.s = last.t)
           => (last.ret1 = last.ret2 /\ Cardinality(Modelo) = 1)

\* two mappings of two keys in opposite orders were registered as one row
C4_Witness ==
    /\ last.op = "second"
    /\ SameMapping(last.p, last.q) /\ last.p # last.q /\ last.s = last.t
    /\ "seed" \notin KeysOf(last.p)
    /\ last.ret1 = last.ret2

RowsOfFold(model_id, i) ==
    {e \in BagToSet(Execucao) : e.ID_Modelo = model_id /\ e.Rodada = i}

\* C5: after an evaluation with folds = k that returns normally the model
\* variation has exactly k execution rows, one for each fold index 0..k-1.
C5_OneRowPerFold ==
    (last.op = "evaluate_model" /\ ~last.raised) =>
        /\ \A i \in 0..(last.folds - 1) :
               SumCounts(Execucao, RowsOfFold(last.model_id, i)) = 1
        /\ SumCounts(Execucao, {e \in BagToSet(Execucao) :
                                   e.ID_Modelo = last.model_id}) = last.folds

\* the result row that run records for combination i and fold j
RunRow(i, j) ==
    LET ts == TestSize(last.n_samples, last.folds, j)
        m == CHOOSE x \in Modelo : x.ID = last.model_ids[i]
    IN ResultRow(ExecRow(last.model_ids[i], j, last.n_samples - ts, ts), m)

RunCells == (1..Len(last.model_ids)) \X (0..(last.folds - 1))

C7_AddExperimentReturnsId ==
    last.op = "add_experiment" =>
        \E x \in Experimentos :
            /\ x.Nome = last.experiment_name
            /\ x.Projeto = project_name
            /\ x.ID = last.ret

\* the positions of the values chosen for each key of a parameter space
IndexTuples(pd) ==
    {f \in [1..Len(pd) -> 1..MaxList] : \A k \in 1..Len(pd) : f[k] <= Len(pd[k][2])}

RECURSIVE Weight(_, _)
Weight(pd, k) == IF k >= Len(pd) THEN 1 ELSE Len(pd[k + 1][2]) * Weight(pd, k + 1)

RECURSIVE Offset(_, _, _)
Offset(pd, f, k) ==
    IF k > Len(pd) THEN 0 ELSE (f[k] - 1) * Weight(pd, k) + Offset(pd, f, k + 1)

Pos(pd, f) == 1 + Offset(pd, f, 1)
Chosen(pd, f) == [k \in 1..Len(pd) |-> <<pd[k][1], pd[k][2][f[k]]>>]

\* C8: for a non-empty parameter space generate_parameter_combinations (both
\* variants) returns one mapping per element of the product of the value
\* lists, each giving every key one value of its list, and run resolves
\* every one of them to the model variation of its fingerprint.
C8_CartesianProduct ==
    /\ (last.op = "generate_parameter_combinations" /\ last.parameter_dict # <<>>) =>
           LET pd == last.parameter_dict
               v == last.result.value
           IN /\ ~last.result.raised
              /\ last.result_em = last.result
              /\ Len(v) = Cardinality(IndexTuples(pd))
              /\ \A f \in IndexTuples(pd) :
                     /\ Pos(pd, f) \in 1..Len(v)
                     /\ v[Pos(pd, f)] = Chosen(pd, f)
                     /\ \A g \in IndexTuples(pd) : Pos(pd, g) = Pos(pd, f) => g = f
    /\ (last.op = "run" /\ last.parameter_dict # <<>>) =>
           LET pd == last.parameter_dict
           IN /\ ~last.raised
              /\ Len(last.model_ids) = Cardinality(IndexTuples(pd))
              /\ \A f \in IndexTuples(pd) :
                     {m.ID : m \in {x \in Modelo :
                         x.Hash = Fingerprint(Chosen(pd, f), last.random_state)}}
                         = {last.model_ids[Pos(pd, f)]}

\* {"C": [1, 10]} was run and registered {"C": 1} and {"C": 10}
C8_Witness ==
    /\ last.op = "run"
    /\ last.parameter_dict = << <<"C", <<1, 10>> >> >>
    /\ {m.Parametros : m \in Modelo} = { << <<"C", 1>> >>, << <<"C", 10>> >> }

Registered(experiment_name) ==
    \E x \in Experimentos : x.Nome = experiment_name /\ x.Projeto = project_name

\* C9: get_experiment_results (either variant) with a name that was never
\* registered for the project raises no error and returns an empty result.
C9_UnknownExperimentEmpty ==
    (/\ last.op \in {"get_experiment_results", "get_experiment_results_em"}
     /\ ~Registered(last.experiment_name))
        => (~last.raised /\ last.ret = EmptyBag)

\* C9, for the parameterised query of evaluation.py alone: an unregistered
\* name gives an empty result and no error.
C9_ParameterisedQueryEmpty ==
    (last.op = "get_experiment_results" /\ ~Registered(last.experiment_name))
        => (~last.raised /\ last.ret = EmptyBag)

\* C10: every row of the three tables exists unchanged in the next state.
C10_AppendOnly ==
    [][/\ Experimentos \subseteq Experimentos'
       /\ Modelo \subseteq Modelo'
       /\ Execucao \sqsubseteq Execucao']_vars

\* all three tables hold rows and a further call was made on them
C10_Witness ==
    /\ Experimentos # {} /\ Modelo # {} /\ Execucao # EmptyBag
    /\ calls = MaxCalls
    /\ last.op = "add_experiment" /\ last.ret = 0

\* the combination and the fold in which call number fail_at of the
\* classifier is made, when each combination takes `folds` calls
FailedCombo(l) == ((l.fail_at - 1) \div l.folds) + 1
FailedFold(l) == (l.fail_at - 1) % l.folds

\* the folds completed before the failure: all folds of the combinations
\* before the failed one, folds 0..j-1 of the failed one
CompletedCells(l) ==
    {x \in (1..FailedCombo(l)) \X (0..(l.folds - 1)) :
        x[1] < FailedCombo(l) \/ x[2] < FailedFold(l)}

\* the execution rows of a set of (position in ids, fold) cells, as a bag
RowsOfCells(l, ids, cells) ==
    LET row(x) == ExecRow(ids[x[1]], x[2], l.accuracy, l.f1_score_macro)
    IN [r \in {row(x) : x \in cells} |->
           Cardinality({x \in cells : row(x) = r})]

\* C11: when the classifier's fit or predict fails on fold j of an
\* evaluation, evaluate_model and run raise, the failing call is the last
\* call made to the classifier (no retry, no further fold or combination),
\* and the store holds everything it held before plus the experiment row,
\* the model-variation rows up to the failed combination, and the execution
\* rows of the folds completed before the failure.
C11_FailurePropagates ==
    [][/\ (/\ last'.op = "evaluate_model_em"
           /\ ~KFoldRaises(NumSamples, last'.folds)
           /\ last'.fail_at \in 1..last'.folds)
          => /\ last'.raised
             /\ last'.fits = last'.fail_at
             /\ Experimentos' = Experimentos
             /\ Modelo' = Modelo
             /\ Execucao' = Execucao (+)
                    RowsOfCells(last', <<last'.model_id>>, CompletedCells(last'))
       /\ (/\ last'.op = "run_em"
           /\ ~KFoldRaises(NumSamples, last'.folds)
           /\ last'.fail_at \in 1..(Len(last'.combos) * last'.folds))
          => /\ last'.raised
             /\ last'.fits = last'.fail_at
             /\ Experimentos \subseteq Experimentos'
             /\ \E e \in Experimentos' : e.Nome = last'.experiment_name
             /\ Modelo \subseteq Modelo'
             /\ Len(last'.model_ids) = FailedCombo(last')
             /\ \A i \in 1..Len(last'.model_ids) :
                    \E m \in Modelo' : m.ID = last'.model_ids[i]
             /\ Execucao' = Execucao (+)
                    RowsOfCells(last', last'.model_ids, CompletedCells(last'))
      ]_vars

\* a run on a store that already holds execution rows fails in fold 1 of
\* its second combination
C11_Witness ==
    /\ last.op = "run_em"
    /\ last.raised
    /\ last.fit_failed
    /\ last.fail_at = last.folds + 2
    /\ Len(last.model_ids) = 2
    /\ BagCardinality(Execucao) > last.folds + 1

\* C12: a run with the empty parameter mapping (the default parameter_dict
\* of run in evaluation.py) completes normally, registers exactly one model
\* variation, with empty parameters, for the experiment, and records
\* `folds` execution rows for it.
C12_RunEmptyMapping ==
    (last.op = "run" /\ last.parameter_dict = <<>>)
        => /\ ~last.raised
           /\ Len(last.model_ids) = 1
           /\ \E e \in Experimentos, m \in Modelo :
                  /\ e.Nome = last.experiment_name
                  /\ m.ID = last.model_ids[1]
                  /\ m.ID_Experimento = e.ID
                  /\ m.Parametros = <<>>
                  /\ SumCounts(Execucao, {x \in BagToSet(Execucao) :
                                             x.ID_Modelo = m.ID}) = last.folds

====
